---- MODULE Spec2Model ----
(***************************************************************************)
(* Model of cloudboss/wheelie: the Ansible helm module (HelmModule.Run)    *)
(* and the reconciliation core (Wheelie.EnsureReleasePresent,              *)
(* Wheelie.ensureReleaseAbsent).  One invocation of Run is one process;    *)
(* tiller's record of the release outlives the invocations.               *)
(***************************************************************************)
EXTENDS Integers, Sequences, FiniteSets, TLC

\* Number of invocations of the module in one behaviour.
MaxRuns == 2

\* ---------------------------------------------------------------- constants
statePresent == "present"
stateAbsent == "absent"
statePurged == "purged"

DefaultTimeout == 300
TillerTimeout == 300

\* The nil error and the empty message.
NoError == <<>>

\* ------------------------------------------------------------------- errors
\* An error text is a sequence of fragments; wrapping an error prepends one.
ErrReleaseNotFound(name) == <<"release: ", name, " not found">>

RpcError(desc) == <<"rpc error: code = Unknown desc = ">> \o desc

ErrTransport == <<"transport is closing">>

\* Variant: strings.HasPrefix in place of strings.Contains.
Contains_prefixOnly(s, sub) ==
    /\ Len(sub) <= Len(s)
    /\ \A j \in 1..Len(sub) : s[j] = sub[j]

\* strings.Contains(s, sub)
Contains(s, sub) ==
    \E i \in 0..(Len(s) - Len(sub)) :
        \A j \in 1..Len(sub) : s[i + j] = sub[j]

\* --------------------------------------------------------------- the input
\* ModuleInput as json.Unmarshal leaves it; an absent field is the zero value.
ZeroInput ==
    [State |-> "", Chart |-> "", Values |-> "nil", NoHooks |-> FALSE,
     NoCRDHook |-> FALSE, Timeout |-> 0, Release |-> "", Namespace |-> "",
     TillerNamespace |-> "", Wait |-> FALSE]

RawInputs ==
    [State : {"", statePresent, stateAbsent, statePurged, "destroyed"},
     Chart : {"./chart"},
     Values : {"nil", "{replicas:3}"},
     NoHooks : BOOLEAN,
     NoCRDHook : {FALSE},
     Timeout : {0, 60},
     Release : {"web"},
     Namespace : {""},
     TillerNamespace : {""},
     Wait : BOOLEAN]

\* Variant: the tiller namespace gets the default of the target namespace.
setDefaultInputs_tillerDefault(in) ==
    [in EXCEPT
        !.State = IF @ = "" THEN "present" ELSE @,
        !.Namespace = IF @ = "" THEN "default" ELSE @,
        !.Timeout = IF @ = 0 THEN DefaultTimeout ELSE @,
        !.Values = IF @ = "nil" THEN "{}" ELSE @,
        !.TillerNamespace = IF @ = "" THEN "default" ELSE @]

setDefaultInputs(in) ==
    [in EXCEPT
        !.State = IF @ = "" THEN "present" ELSE @,
        !.Namespace = IF @ = "" THEN "default" ELSE @,
        !.Timeout = IF @ = 0 THEN DefaultTimeout ELSE @,
        !.Values = IF @ = "nil" THEN "{}" ELSE @,
        !.TillerNamespace = IF @ = "" THEN "kube-system" ELSE @]

\* ------------------------------------------------------------- the backend
StatusCodes == {"DEPLOYED", "DELETED", "FAILED"}

\* What the chart renders to under the given values: the manifest text and
\* the hooks of the release.
RenderManifest(chart, rawVals) ==
    IF rawVals = "{}" THEN "replicas: 1" ELSE "replicas: 3"

RenderHooks(chart) == "pre-install: migrate"

Manifests == {"replicas: 1", "replicas: 3"}
HookSets == {"pre-install: migrate", "none"}

\* Tiller's record of the release named by the input.
NoRelease == [found |-> FALSE, status |-> "DELETED",
              manifest |-> "replicas: 1", hooks |-> "none"]

ReleaseRecords ==
    [found : {TRUE}, status : StatusCodes, manifest : Manifests,
     hooks : HookSets] \cup {NoRelease}

\* A call made to the cluster, with the options the code passes.
Call(op, opts, ok) ==
    [op |-> op, name |-> opts.name, chart |-> opts.chart,
     values |-> opts.values, dryRun |-> opts.dryRun, force |-> opts.force,
     purge |-> opts.purge, noHooks |-> opts.noHooks,
     timeout |-> opts.timeout, wait |-> opts.wait, ok |-> ok]

NoOpts == [name |-> "", chart |-> "", values |-> "", dryRun |-> FALSE,
           force |-> FALSE, purge |-> FALSE, noHooks |-> FALSE, timeout |-> 0,
           wait |-> FALSE]

NoResult == [msg |-> <<>>, changed |-> FALSE, err |-> NoError]

\* A nil *GetReleaseContentResponse / *UpdateReleaseResponse.
NilResponse == [isNil |-> TRUE, status |-> "UNKNOWN", manifest |-> "",
                hooks |-> ""]

Response(rel) == [isNil |-> FALSE, status |-> rel.status,
                  manifest |-> rel.manifest, hooks |-> rel.hooks]

NoPrev == [state |-> "", outcome |-> "none"]

VARIABLES
    pc,              \* position of the invocation in Run
    runs,            \* invocations started so far
    rawInput,        \* m.Input as json.Unmarshal left it
    input,           \* m.Input
    tillerHost,      \* w.TillerHost
    purge,           \* argument of ensureReleaseAbsent
    releaseResponse, \* local of the Ensure functions: the release read
    err,             \* local of the Ensure functions: error of the release read
    dryRunResponse,  \* local of EnsureReleasePresent: the trial's release
    diffs,           \* answers of diff.DiffManifests in this invocation
    ret,             \* (msg, changed, err) returned to Run
    output,          \* documents written by respondJSON in this invocation
    calls,           \* calls made to the cluster in this invocation
    release,         \* tiller's record of the release
    before,          \* tiller's record when this invocation started
    prev,            \* goal and outcome of the previous invocation
    sameInput,       \* this invocation's input equals the previous one's
    drifted          \* the record was changed by others since the last invocation

vars == <<pc, runs, rawInput, input, tillerHost, purge, releaseResponse, err,
          dryRunResponse, diffs, ret, output, calls, release, before,
          prev, sameInput, drifted>>

locals == <<purge, releaseResponse, err, dryRunResponse, diffs>>
history == <<runs, rawInput, before, prev, sameInput, drifted>>

Init ==
    /\ pc = "start"
    /\ runs = 1
    /\ rawInput = ZeroInput
    /\ input = ZeroInput
    /\ tillerHost = ""
    /\ purge = FALSE
    /\ releaseResponse = NilResponse
    /\ err = NoError
    /\ dryRunResponse = NilResponse
    /\ diffs = <<>>
    /\ ret = NoResult
    /\ output = <<>>
    /\ calls = <<>>
    /\ release \in ReleaseRecords
    /\ before = release
    /\ prev = NoPrev
    /\ sameInput = FALSE
    /\ drifted = FALSE

\* ------------------------------------------------------ the module adapter
\* Variant: changed reported whenever there is no error.
Return_changedUnlessError(msg, changed, e) ==
    /\ ret' = [msg |-> msg, changed |-> (e = NoError), err |-> e]
    /\ pc' = "returned"

\* return msg, changed, err: the values Run receives (or sets itself).
Return(msg, changed, e) ==
    /\ ret' = [msg |-> msg, changed |-> changed, err |-> e]
    /\ pc' = "returned"

\* fail(msg) followed by respondJSON
fail(msg) ==
    output' = Append(output, [Msg |-> msg, Changed |-> FALSE, Failed |-> TRUE])

\* succeed(msg, changed) followed by respondJSON
succeed(msg, changed) ==
    output' = Append(output, [Msg |-> msg, Changed |-> changed, Failed |-> FALSE])

\* Run up to the construction of the Wheelie value.
RunBegin ==
    /\ pc = "start"
    /\ \E nargs \in 1..3, file \in {"ok", "unreadable", "unparsable"},
          raw \in RawInputs :
         IF nargs # 2
         THEN /\ fail(<<"expected 2 arguments to module">>)
              /\ pc' = "exited"
              /\ rawInput' = ZeroInput
              /\ input' = ZeroInput
              /\ sameInput' = FALSE
         ELSE IF file = "unreadable"
         THEN /\ fail(<<"error reading input">>)
              /\ pc' = "exited"
              /\ rawInput' = ZeroInput
              /\ input' = ZeroInput
              /\ sameInput' = FALSE
         ELSE IF file = "unparsable"
         THEN /\ fail(<<"unable to parse input">>)
              /\ pc' = "exited"
              /\ rawInput' = ZeroInput
              /\ input' = ZeroInput
              /\ sameInput' = FALSE
         ELSE /\ rawInput' = raw
              /\ input' = setDefaultInputs(raw)
              /\ sameInput' = (input' = input)
              /\ pc' = "forward"
              /\ UNCHANGED output
    /\ UNCHANGED <<tillerHost, locals, ret, calls, release, runs, before,
                   prev, drifted>>

\* Variant: Run goes on after a failed ForwardTillerPort.
ForwardTillerPort_errorIgnored ==
    /\ pc = "forward"
    /\ \E step \in {"config", "client", "forwarder", "ok"} :
         /\ calls' = Append(calls, Call("ForwardTillerPort", NoOpts, step = "ok"))
         /\ tillerHost' = IF step = "ok" THEN "127.0.0.1:port" ELSE tillerHost
         /\ pc' = "switch"
    /\ UNCHANGED <<input, locals, ret, output, release, history>>

\* w.ForwardTillerPort() and the check of its error in Run.
ForwardTillerPort ==
    /\ pc = "forward"
    /\ \E step \in {"config", "client", "forwarder", "ok"} :
         /\ calls' = Append(calls, Call("ForwardTillerPort", NoOpts, step = "ok"))
         /\ IF step = "ok"
            THEN /\ tillerHost' = "127.0.0.1:port"
                 /\ pc' = "switch"
                 /\ UNCHANGED output
            ELSE /\ fail(<<"unable to forward tiller port">>)
                 /\ pc' = "exited"
                 /\ UNCHANGED tillerHost
    /\ UNCHANGED <<input, locals, ret, release, history>>

ErrState == <<"state must be one of 'present', 'absent', or 'purged'">>

\* The pc the switch on m.Input.State leads to.
SwitchState(state) ==
    CASE state = statePresent -> "EnsureReleasePresent"
      [] state = stateAbsent -> "ensureReleaseAbsent"
      [] state = statePurged -> "ensureReleaseAbsent"
      [] OTHER -> "returned"

Switch ==
    /\ pc = "switch"
    /\ IF SwitchState(input.State) = "returned"
       THEN Return(<<>>, FALSE, ErrState)
       ELSE pc' = SwitchState(input.State) /\ UNCHANGED ret
    /\ purge' = (input.State = statePurged)
    /\ UNCHANGED <<input, tillerHost, releaseResponse, err, dryRunResponse,
                   diffs, output, calls, release, history>>

\* The end of Run: fail on an error, succeed otherwise.
RunFinish ==
    /\ pc = "returned"
    /\ IF ret.err # NoError THEN fail(ret.err) ELSE succeed(ret.msg, ret.changed)
    /\ pc' = "exited"
    /\ UNCHANGED <<input, tillerHost, locals, ret, calls, release, history>>

\* ------------------------------------------------ the reconciliation core
\* The options of each call, as the code passes them.
\* The release name, the chart and the marshalled values of an install or
\* update call.
Named(w) == [NoOpts EXCEPT !.name = w.Release, !.chart = w.Chart,
                           !.values = w.Values]

InstallOpts(w) == [Named(w) EXCEPT !.noHooks = w.NoHooks, !.timeout = w.Timeout,
                                   !.wait = w.Wait]

\* Variant: the update over a deleted release is not forced.
ForceUpdateOpts_notForced(w) ==
    [Named(w) EXCEPT !.noHooks = w.NoHooks, !.timeout = w.Timeout,
                   !.wait = w.Wait]

ForceUpdateOpts(w) == [Named(w) EXCEPT !.noHooks = w.NoHooks,
                                       !.timeout = w.Timeout, !.wait = w.Wait,
                                       !.force = TRUE]

\* Variant: the trial is made without its timeout.
DryRunOpts_noTimeout(w) == [Named(w) EXCEPT !.noHooks = w.NoHooks,
                                            !.dryRun = TRUE]

\* Variant: the trial is made without the dry-run option.
DryRunOpts_notDry(w) == [Named(w) EXCEPT !.noHooks = w.NoHooks,
                                         !.timeout = w.Timeout]

DryRunOpts(w) == [Named(w) EXCEPT !.noHooks = w.NoHooks, !.timeout = w.Timeout,
                                  !.dryRun = TRUE]

\* Variant: the update after the diff is forced.
UpdateOpts_forced(w) ==
    [Named(w) EXCEPT !.noHooks = w.NoHooks, !.timeout = w.Timeout,
                   !.wait = w.Wait, !.force = TRUE]

UpdateOpts(w) == [Named(w) EXCEPT !.noHooks = w.NoHooks, !.timeout = w.Timeout,
                                  !.wait = w.Wait]

\* Variant: the delete is made without its timeout.
DeleteOpts_noTimeout(w, p) == [NoOpts EXCEPT !.name = w.Release,
                                             !.noHooks = w.NoHooks, !.purge = p]

DeleteOpts(w, p) == [NoOpts EXCEPT !.name = w.Release, !.noHooks = w.NoHooks,
                                   !.purge = p, !.timeout = w.Timeout]

\* The options of client.ReleaseContent(w.Release).
ContentOpts(w) == [NoOpts EXCEPT !.name = w.Release]

\* client.ReleaseContent: the (response, error) pairs tiller can answer with.
\* The response is nil whenever the error is not.
ReleaseContent(name) ==
    IF release.found
    THEN {[resp |-> Response(release), err |-> NoError],
          [resp |-> NilResponse, err |-> RpcError(ErrTransport)]}
    ELSE {[resp |-> NilResponse, err |-> RpcError(ErrReleaseNotFound(name))],
          [resp |-> NilResponse, err |-> RpcError(ErrTransport)]}

\* The release tiller holds after a successful install or upgrade.
Deployed(w) ==
    [found |-> TRUE, status |-> "DEPLOYED",
     manifest |-> RenderManifest(w.Chart, w.Values),
     hooks |-> RenderHooks(w.Chart)]

\* The release tiller holds after a successful update made with opts: a
\* dry run leaves the record as it is.
Updated(rel, w, opts) == IF opts.dryRun THEN rel ELSE Deployed(w)

\* The release tiller holds after a successful delete.
Deleted(rel, p) == IF p THEN NoRelease ELSE [rel EXCEPT !.status = "DELETED"]

\* Variant: the error is compared with the not-found error for equality.
IsNotFound_exact(e, name) == e # NoError /\ e = ErrReleaseNotFound(name)

\* err != nil && strings.Contains(err.Error(), ErrReleaseNotFound(...).Error())
IsNotFound(e, name) == e # NoError /\ Contains(e, ErrReleaseNotFound(name))

\* chartutil.Load, json.Marshal and helm.NewClient.
LoadChart ==
    /\ pc = "EnsureReleasePresent"
    /\ \E loaded \in BOOLEAN :
         IF loaded
         THEN pc' = "present_read" /\ UNCHANGED ret
         ELSE Return(<<>>, FALSE, <<"chart not found">>)
    /\ UNCHANGED <<input, tillerHost, locals, output, calls, release, history>>

\* Where EnsureReleasePresent goes after the release read.  Only the
\* not-found error is tested; after any other error the nil response is
\* dereferenced (releaseResponse.Release.Info.Status.Code) and the process
\* panics.
AfterReadPresent(resp, e, name) ==
    IF IsNotFound(e, name) THEN "install"
    ELSE IF resp.isNil THEN "panic"
    ELSE IF resp.status = "DELETED" THEN "force_update"
    ELSE "dry_run"

ReadPresent ==
    /\ pc = "present_read"
    /\ \E r \in ReleaseContent(input.Release) :
         /\ releaseResponse' = r.resp
         /\ err' = r.err
         /\ calls' = Append(calls, Call("ReleaseContent", ContentOpts(input), r.err = NoError))
         /\ pc' = AfterReadPresent(r.resp, r.err, input.Release)
    /\ UNCHANGED <<input, tillerHost, purge, dryRunResponse, diffs, ret,
                   output, release, history>>

\* Variant: a failed install is tried once more.
InstallRelease_retryOnce ==
    /\ pc = "install"
    /\ \E ok \in BOOLEAN :
         /\ calls' = Append(calls, Call("InstallRelease", InstallOpts(input), ok))
         /\ IF ok
            THEN /\ release' = Deployed(input)
                 /\ Return(<<"Install complete">>, TRUE, NoError)
            ELSE IF \A i \in DOMAIN calls : calls[i].op # "InstallRelease"
            THEN UNCHANGED <<release, pc, ret>>
            ELSE /\ UNCHANGED release
                 /\ Return(<<>>, FALSE, RpcError(<<"install failed">>))
    /\ UNCHANGED <<input, tillerHost, locals, output, history>>

InstallRelease ==
    /\ pc = "install"
    /\ \E ok \in BOOLEAN :
         /\ calls' = Append(calls, Call("InstallRelease", InstallOpts(input), ok))
         /\ IF ok
            THEN /\ release' = Deployed(input)
                 /\ Return(<<"Install complete">>, TRUE, NoError)
            ELSE /\ UNCHANGED release
                 /\ Return(<<>>, FALSE, RpcError(<<"install failed">>))
    /\ UNCHANGED <<input, tillerHost, locals, output, history>>

ForceUpdateRelease ==
    /\ pc = "force_update"
    /\ \E ok \in BOOLEAN :
         /\ calls' = Append(calls, Call("UpdateRelease", ForceUpdateOpts(input), ok))
         /\ IF ok
            THEN /\ release' = Updated(release, input, ForceUpdateOpts(input))
                 /\ Return(<<"Upgrade complete">>, TRUE, NoError)
            ELSE /\ UNCHANGED release
                 /\ Return(<<>>, FALSE, RpcError(<<"upgrade failed">>))
    /\ UNCHANGED <<input, tillerHost, locals, output, history>>

DryRunUpdateRelease ==
    /\ pc = "dry_run"
    /\ \E ok \in BOOLEAN :
         /\ calls' = Append(calls, Call("UpdateRelease", DryRunOpts(input), ok))
         /\ IF ok
            THEN /\ dryRunResponse' = Response(Deployed(input))
                 /\ release' = Updated(release, input, DryRunOpts(input))
                 /\ pc' = "diff"
                 /\ UNCHANGED ret
            ELSE /\ UNCHANGED <<dryRunResponse, release>>
                 /\ Return(<<>>, FALSE, RpcError(<<"upgrade failed">>))
    /\ UNCHANGED <<input, tillerHost, purge, releaseResponse, err, diffs,
                   output, history>>

\* Variant: every trial is taken to differ from the release.
DiffManifests_always(current, new, noHooks) == TRUE

\* manifest.Parse / manifest.ParseRelease followed by diff.DiffManifests:
\* with hooks disabled only the manifest text is compared.
DiffManifests(current, new, noHooks) ==
    IF noHooks
    THEN current.manifest # new.manifest
    ELSE current.manifest # new.manifest \/ current.hooks # new.hooks

\* Variant: the update is made whatever the differ answers.
AfterDiff_always(changes) == "update"

\* if hasChanges { ... UpdateRelease ... }
AfterDiff(changes) == IF changes THEN "update" ELSE "returned"

Diff ==
    /\ pc = "diff"
    /\ LET changes == DiffManifests(releaseResponse, dryRunResponse, input.NoHooks)
       IN /\ diffs' = Append(diffs, changes)
          /\ IF AfterDiff(changes) = "returned"
             THEN Return(<<>>, FALSE, NoError)
             ELSE pc' = AfterDiff(changes) /\ UNCHANGED ret
    /\ UNCHANGED <<input, tillerHost, purge, releaseResponse, err,
                   dryRunResponse, output, calls, release, history>>

UpdateRelease ==
    /\ pc = "update"
    /\ \E ok \in BOOLEAN :
         /\ calls' = Append(calls, Call("UpdateRelease", UpdateOpts(input), ok))
         /\ IF ok
            THEN /\ release' = Updated(release, input, UpdateOpts(input))
                 /\ Return(<<"Upgrade complete">>, TRUE, NoError)
            ELSE /\ UNCHANGED release
                 /\ Return(<<>>, FALSE, RpcError(<<"upgrade failed">>))
    /\ UNCHANGED <<input, tillerHost, locals, output, history>>

\* Variant: every release found is deleted, a deleted one too.
AfterReadAbsent_alwaysDelete(resp, e, name, p) ==
    IF IsNotFound(e, name) THEN "returned"
    ELSE IF resp.isNil THEN "panic"
    ELSE "delete"

\* Variant: a deleted release is left alone whatever the purge flag.
AfterReadAbsent_noPurgeCheck(resp, e, name, p) ==
    IF IsNotFound(e, name) THEN "returned"
    ELSE IF resp.isNil THEN "panic"
    ELSE IF resp.status = "DELETED" THEN "returned"
    ELSE "delete"

\* Where ensureReleaseAbsent goes after the release read; the nil response
\* is dereferenced as in EnsureReleasePresent.
AfterReadAbsent(resp, e, name, p) ==
    IF IsNotFound(e, name) THEN "returned"
    ELSE IF resp.isNil THEN "panic"
    ELSE IF resp.status = "DELETED" /\ ~p THEN "returned"
    ELSE "delete"

ReadAbsent ==
    /\ pc = "ensureReleaseAbsent"
    /\ \E r \in ReleaseContent(input.Release) :
         /\ releaseResponse' = r.resp
         /\ err' = r.err
         /\ calls' = Append(calls, Call("ReleaseContent", ContentOpts(input), r.err = NoError))
         /\ IF AfterReadAbsent(r.resp, r.err, input.Release, purge) = "returned"
            THEN Return(<<>>, FALSE, NoError)
            ELSE /\ pc' = AfterReadAbsent(r.resp, r.err, input.Release, purge)
                 /\ UNCHANGED ret
    /\ UNCHANGED <<input, tillerHost, purge, dryRunResponse, diffs, output,
                   release, history>>

\* Variant: a purge is made as a plain delete followed by a purging one.
DeleteRelease_deleteThenPurge ==
    /\ pc = "delete"
    /\ \E ok \in BOOLEAN :
         LET first == purge /\ \A i \in DOMAIN calls : calls[i].op # "DeleteRelease"
         IN /\ calls' = Append(calls, Call("DeleteRelease",
                                           DeleteOpts(input, purge /\ ~first), ok))
            /\ IF ok /\ first
               THEN /\ release' = Deleted(release, FALSE)
                    /\ UNCHANGED <<pc, ret>>
               ELSE IF ok
               THEN /\ release' = Deleted(release, purge)
                    /\ Return(<<"release ", input.Release, " deleted">>, TRUE, NoError)
               ELSE /\ UNCHANGED release
                    /\ Return(<<>>, FALSE, RpcError(<<"delete failed">>))
    /\ UNCHANGED <<input, tillerHost, locals, output, history>>

DeleteRelease ==
    /\ pc = "delete"
    /\ \E ok \in BOOLEAN :
         /\ calls' = Append(calls, Call("DeleteRelease", DeleteOpts(input, purge), ok))
         /\ IF ok
            THEN /\ release' = Deleted(release, purge)
                 /\ Return(<<"release ", input.Release, " deleted">>, TRUE, NoError)
            ELSE /\ UNCHANGED release
                 /\ Return(<<>>, FALSE, RpcError(<<"delete failed">>))
    /\ UNCHANGED <<input, tillerHost, locals, output, history>>

\* ------------------------------------------------------- the environment
\* How an invocation ended.
Outcome ==
    IF pc = "panic" THEN "panic"
    ELSE IF output[Len(output)].Failed THEN "failed"
    ELSE IF output[Len(output)].Changed THEN "changed"
    ELSE "unchanged"

\* The orchestration layer invokes the module again: a new process.
Reinvoke ==
    /\ pc \in {"exited", "panic"}
    /\ runs < MaxRuns
    /\ runs' = runs + 1
    /\ prev' = [state |-> input.State, outcome |-> Outcome]
    /\ pc' = "start"
    /\ tillerHost' = ""
    /\ purge' = FALSE
    /\ releaseResponse' = NilResponse
    /\ err' = NoError
    /\ dryRunResponse' = NilResponse
    /\ diffs' = <<>>
    /\ ret' = NoResult
    /\ output' = <<>>
    /\ calls' = <<>>
    /\ before' = release
    /\ drifted' = FALSE
    /\ sameInput' = FALSE
    /\ UNCHANGED <<rawInput, input, release>>

\* Between two invocations another client changes the release.
Drift ==
    /\ pc = "start"
    /\ runs > 1
    /\ ~drifted
    /\ \E r \in ReleaseRecords \ {release} :
         /\ release' = r
         /\ before' = r
    /\ drifted' = TRUE
    /\ UNCHANGED <<pc, runs, rawInput, input, tillerHost, locals, ret,
                   output, calls, prev, sameInput>>

Next ==
    \/ RunBegin
    \/ ForwardTillerPort
    \/ Switch
    \/ RunFinish
    \/ LoadChart
    \/ ReadPresent
    \/ InstallRelease
    \/ ForceUpdateRelease
    \/ DryRunUpdateRelease
    \/ Diff
    \/ UpdateRelease
    \/ ReadAbsent
    \/ DeleteRelease
    \/ Reinvoke
    \/ Drift

Spec == Init /\ [][Next]_vars

\* --------------------------------------------- setDefaultInputs on its own
\* The inputs json.Unmarshal can leave in m.Input: each defaulted field is
\* absent or given.
UnmarshalledInputs ==
    [State : {"", statePresent, stateAbsent, "destroyed"},
     Chart : {"./chart"},
     Values : {"nil", "{}", "{replicas:3}"},
     NoHooks : {FALSE},
     NoCRDHook : {FALSE},
     Timeout : {0, 60, 300},
     Release : {"web"},
     Namespace : {"", "prod"},
     TillerNamespace : {"", "tiller"},
     Wait : {TRUE}]

InitDefaults ==
    /\ pc = "unmarshalled"
    /\ runs = 1
    /\ rawInput \in UnmarshalledInputs
    /\ input = rawInput
    /\ tillerHost = ""
    /\ purge = FALSE
    /\ releaseResponse = NilResponse
    /\ err = NoError
    /\ dryRunResponse = NilResponse
    /\ diffs = <<>>
    /\ ret = NoResult
    /\ output = <<>>
    /\ calls = <<>>
    /\ release = NoRelease
    /\ before = NoRelease
    /\ prev = NoPrev
    /\ sameInput = FALSE
    /\ drifted = FALSE

\* m.setDefaultInputs(), called on m.Input once and then once more.
ApplyDefaults ==
    /\ pc \in {"unmarshalled", "defaulted"}
    /\ input' = setDefaultInputs(input)
    /\ pc' = IF pc = "unmarshalled" THEN "defaulted" ELSE "defaulted twice"
    /\ UNCHANGED <<runs, rawInput, tillerHost, locals, ret, output, calls,
                   release, before, prev, sameInput, drifted>>

NextDefaults == ApplyDefaults

SpecDefaults == InitDefaults /\ [][NextDefaults]_vars

\* ================================================================ properties
Trials == {i \in DOMAIN calls : calls[i].op = "UpdateRelease" /\ calls[i].dryRun}

Installs == {i \in DOMAIN calls : calls[i].op = "InstallRelease"}

Updates == {i \in DOMAIN calls : calls[i].op = "UpdateRelease" /\ ~calls[i].dryRun}

Deletes == {i \in DOMAIN calls : calls[i].op = "DeleteRelease"}

\* The committing (mutating) calls of this invocation.
Committing == Installs \cup Updates \cup Deletes

Finished == pc \in {"returned", "exited"}

\* What the release read of this invocation reported.
ReadNotFound == err = RpcError(ErrReleaseNotFound(input.Release))
ReadFailed == err = RpcError(ErrTransport)
ReadFound == ~releaseResponse.isNil
ReadDeleted == ReadFound /\ releaseResponse.status = "DELETED"

Failure(r) == r.msg = <<>> /\ ~r.changed /\ r.err # NoError

\* C1: goal present, release found and not deleted, the differ reports no
\* differences: the reconciliation has ended with exactly one dry-run update,
\* no install, real update or delete, and returned ("", false, nil).
C1_NoDifferenceNoOp ==
    (input.State = statePresent /\ ReadFound /\ ~ReadDeleted /\ diffs = <<FALSE>>)
        => /\ Finished
           /\ Cardinality(Trials) = 1
           /\ Committing = {}
           /\ ret = NoResult

C1_Witness ==
    /\ pc = "exited"
    /\ input.State = statePresent
    /\ releaseResponse.status = "FAILED"
    /\ diffs = <<FALSE>>
    /\ output = <<[Msg |-> <<>>, Changed |-> FALSE, Failed |-> FALSE]>>

\* C2: goal present, release found and not deleted, the differ reports
\* differences: the dry-run update came first, then exactly one update with
\* dryRun=false and force=false; when it succeeds the result is changed=true
\* with the description tiller reported.
C2_DifferenceTrialThenUpdate ==
    (input.State = statePresent /\ ReadFound /\ ~ReadDeleted /\ diffs = <<TRUE>>)
        => /\ Cardinality(Trials) = 1
           /\ Installs = {} /\ Deletes = {}
           /\ IF pc = "update"
              THEN Updates = {}
              ELSE /\ Finished
                   /\ \E i \in Trials, j \in Updates :
                        /\ i < j
                        /\ Updates = {j}
                        /\ ~calls[j].force
                        /\ calls[j].ok =>
                             ret = [msg |-> <<"Upgrade complete">>,
                                    changed |-> TRUE, err |-> NoError]

C2_Witness ==
    /\ pc = "exited"
    /\ input.State = statePresent
    /\ diffs = <<TRUE>>
    /\ Len(calls) = 4 /\ calls[3].dryRun /\ ~calls[4].dryRun /\ calls[4].ok
    /\ output = <<[Msg |-> <<"Upgrade complete">>, Changed |-> TRUE,
                   Failed |-> FALSE]>>

\* C3 as stated: goal present and the read reports not found: exactly one
\* install, no trial, update or delete, changed=true and tiller's description
\* as message.
C3_Original ==
    (input.State = statePresent /\ ReadNotFound /\ Finished)
        => /\ Cardinality(Installs) = 1
           /\ Trials = {} /\ Updates = {} /\ Deletes = {}
           /\ ret = [msg |-> <<"Install complete">>, changed |-> TRUE,
                     err |-> NoError]

\* C3 amended: goal present and the read reports not found: the
\* reconciliation goes to the install and makes exactly one install call and no
\* trial, update or delete; when the install succeeds it returns changed=true
\* with tiller's description, when it fails it returns the error with
\* changed=false and an empty message.
C3_NotFoundInstalls ==
    (input.State = statePresent /\ ReadNotFound)
        => /\ Trials = {} /\ Updates = {} /\ Deletes = {}
           /\ IF pc = "install"
              THEN Installs = {}
              ELSE /\ Finished
                   /\ \E i \in Installs :
                        /\ Installs = {i}
                        /\ IF calls[i].ok
                           THEN ret = [msg |-> <<"Install complete">>,
                                       changed |-> TRUE, err |-> NoError]
                           ELSE Failure(ret)

C3_Witness ==
    /\ pc = "exited"
    /\ input.State = statePresent
    /\ ReadNotFound
    /\ Len(calls) = 3 /\ calls[3].op = "InstallRelease" /\ calls[3].ok
    /\ output = <<[Msg |-> <<"Install complete">>, Changed |-> TRUE,
                   Failed |-> FALSE]>>

\* C4 as stated: goal present and the release found in status deleted: exactly
\* one update with force=true and dryRun=false, no install, no trial, and
\* changed=true.
C4_Original ==
    (input.State = statePresent /\ ReadDeleted /\ Finished)
        => /\ \E j \in Updates : Updates = {j} /\ calls[j].force
           /\ Installs = {} /\ Trials = {}
           /\ ret.changed

\* C4 amended: goal present and the release found in status deleted: exactly
\* one update with force=true and dryRun=false, no install, trial or delete;
\* when the update succeeds the result is changed=true, when it fails the
\* error is returned with changed=false.
C4_DeletedForcesUpdate ==
    (input.State = statePresent /\ ReadDeleted)
        => /\ Installs = {} /\ Trials = {} /\ Deletes = {}
           /\ IF pc = "force_update"
              THEN Updates = {}
              ELSE /\ Finished
                   /\ \E j \in Updates :
                        /\ Updates = {j}
                        /\ calls[j].force
                        /\ IF calls[j].ok
                           THEN ret = [msg |-> <<"Upgrade complete">>,
                                       changed |-> TRUE, err |-> NoError]
                           ELSE Failure(ret)

C4_Witness ==
    /\ pc = "exited"
    /\ input.State = statePresent
    /\ ReadDeleted
    /\ Len(calls) = 3 /\ calls[3].force /\ calls[3].ok
    /\ release.status = "DEPLOYED"
    /\ output[1].Changed

\* C5 as stated: the release found in status deleted: with goal absent no
\* mutating call and changed=false; with goal purged exactly one delete call
\* with purge=true and changed=true.
C5_Original ==
    (ReadDeleted /\ Finished)
        => /\ input.State = stateAbsent => (Committing = {} /\ ~ret.changed)
           /\ input.State = statePurged =>
                /\ \E d \in Deletes : Committing = {d} /\ calls[d].purge
                /\ ret.changed

\* C5 amended: the release found in status deleted: with goal absent no
\* mutating call and ("", false, nil) is returned; with goal purged exactly
\* one delete call with purge=true, returning changed=true when the delete
\* succeeds and the error with changed=false when it fails.
C5_DeletedAbsentVsPurged ==
    ReadDeleted
        => /\ input.State = stateAbsent =>
                (Finished /\ Committing = {} /\ ret = NoResult)
           /\ input.State = statePurged =>
                IF pc = "delete"
                THEN Committing = {}
                ELSE /\ Finished
                     /\ \E d \in Deletes :
                          /\ Committing = {d}
                          /\ calls[d].purge
                          /\ IF calls[d].ok
                             THEN ret.changed /\ ret.err = NoError
                             ELSE Failure(ret)

C5_Witness ==
    /\ pc = "exited"
    /\ input.State = statePurged
    /\ ReadDeleted
    /\ Len(calls) = 3 /\ calls[3].op = "DeleteRelease" /\ calls[3].purge
    /\ calls[3].ok
    /\ ~release.found
    /\ output[1].Changed

\* C6: goal absent or purged and the read reports not found: the
\* reconciliation has ended with no trial and no mutating call, returning
\* ("", false, nil).
C6_AbsentNotFoundNoOp ==
    (input.State \in {stateAbsent, statePurged} /\ ReadNotFound)
        => /\ Finished
           /\ Committing = {} /\ Trials = {}
           /\ ret = NoResult

C6_Witness ==
    /\ pc = "exited"
    /\ input.State = statePurged
    /\ ReadNotFound
    /\ Len(calls) = 2
    /\ output = <<[Msg |-> <<>>, Changed |-> FALSE, Failed |-> FALSE]>>

\* The previous invocation had goal present and succeeded, nobody touched the
\* release since, and this invocation has read the same input.
AfterPresentSuccess ==
    /\ runs > 1
    /\ prev.state = statePresent
    /\ prev.outcome \in {"changed", "unchanged"}
    /\ ~drifted
    /\ sameInput

\* C7: after a successful reconciliation with goal present, an immediately
\* following one with the same input, on the release as the first left it,
\* makes no install, real update or delete and never reports changed=true.
C7_PresentIdempotent ==
    AfterPresentSuccess
        => /\ Committing = {}
           /\ ~ret.changed
           /\ \A i \in DOMAIN output : ~output[i].Changed

C7_Witness ==
    /\ AfterPresentSuccess
    /\ prev.outcome = "changed"
    /\ pc = "exited"
    /\ diffs = <<FALSE>>
    /\ output = <<[Msg |-> <<>>, Changed |-> FALSE, Failed |-> FALSE]>>

\* The input was parsed and its goal is none of present, absent, purged.
InvalidGoal ==
    /\ input # ZeroInput
    /\ input.State \notin {statePresent, stateAbsent, statePurged}

\* C8: with an invalid goal the invocation ends in the configuration error
\* and no call to the cluster (tunnel, read, trial, mutation) was made.
C8_InvalidGoalBeforeBackend ==
    (InvalidGoal /\ pc = "exited")
        => /\ output = <<[Msg |-> ErrState, Changed |-> FALSE, Failed |-> TRUE]>>
           /\ calls = <<>>

\* C9: when the release read fails with an error other than not found, the
\* reconciliation has returned that error with changed=false and made no
\* install, trial, update or delete call.
C9_ReadErrorReturned ==
    ReadFailed
        => /\ Finished
           /\ ret = [msg |-> <<>>, changed |-> FALSE, err |-> err]
           /\ Committing = {} /\ Trials = {}

\* C10: the returned changed flag is true exactly when a mutating call
\* (install, real update, delete) was made and succeeded; the document written
\* reports changed only then; a dry-run update never counts.
C10_ChangedIffMutated ==
    /\ ret.changed <=> (\E i \in Committing : calls[i].ok)
    /\ \A k \in DOMAIN output : output[k].Changed => ret.changed

C10_Witness ==
    /\ pc = "exited"
    /\ \E i \in Trials : calls[i].ok
    /\ \E j \in Updates : ~calls[j].ok
    /\ ~ret.changed
    /\ output[1].Failed

\* The action classes this invocation has taken, read off its calls: the
\* no-op is a reconciliation that decided on the release read and returned
\* ("", false, nil) without a mutating call.
ClassesTaken ==
    {c \in {"install", "force-upgrade", "conditional-upgrade", "no-op", "delete"} :
        CASE c = "install" -> Installs # {}
          [] c = "force-upgrade" -> \E j \in Updates : calls[j].force
          [] c = "conditional-upgrade" ->
                \/ \E j \in Updates : ~calls[j].force
                \/ \E i \in Trials : ~calls[i].ok
          [] c = "delete" -> Deletes # {}
          [] c = "no-op" -> /\ Finished
                            /\ ReadFound \/ ReadNotFound
                            /\ Committing = {}
                            /\ ret = NoResult}

\* C11: an invocation never makes more than one mutating call (install, real
\* update, delete), never takes two action classes, and has taken exactly one
\* when a reconciliation that got an answer from the release read has returned.
C11_OneActionClass ==
    /\ Cardinality(Committing) <= 1
    /\ Cardinality(ClassesTaken) <= 1
    /\ (Finished /\ (ReadFound \/ ReadNotFound)) => Cardinality(ClassesTaken) = 1

C11_Witness ==
    /\ pc = "returned"
    /\ ClassesTaken = {"conditional-upgrade"}
    /\ Cardinality(Trials) = 1
    /\ Cardinality(Committing) = 1

\* The trial and mutating calls of this invocation that failed.
FailedCalls == {i \in Trials \cup Committing : ~calls[i].ok}

\* The error tiller answers a failed call with.
ErrorOf(c) ==
    CASE c.op = "InstallRelease" -> RpcError(<<"install failed">>)
      [] c.op = "UpdateRelease" -> RpcError(<<"upgrade failed">>)
      [] c.op = "DeleteRelease" -> RpcError(<<"delete failed">>)

\* C12: a failed trial, install, update or delete is the last call of the
\* invocation, and the reconciliation has returned its error with
\* changed=false and an empty message; a failed chart load returns its error
\* the same way, with no call made after it.
C12_NoRetry ==
    /\ \A i \in FailedCalls :
         /\ i = Len(calls)
         /\ Finished
         /\ Failure(ret)
         /\ ret.err = ErrorOf(calls[i])
    /\ ret.err = <<"chart not found">> =>
         (Finished /\ Failure(ret) /\ Len(calls) = 1)

C12_Witness ==
    /\ pc = "exited"
    /\ \E i \in Trials : ~calls[i].ok /\ i = Len(calls)
    /\ output = <<[Msg |-> RpcError(<<"upgrade failed">>), Changed |-> FALSE,
                   Failed |-> TRUE]>>

\* C13: goal absent or purged, release found, and not (deleted with goal
\* absent): exactly one delete call, with purge = (goal = purged) and the
\* input's hook-disable flag and timeout; when it succeeds the result is
\* changed=true with the message "release <name> deleted", when it fails the
\* error is returned with changed=false.
C13_DeleteCall ==
    (/\ input.State \in {stateAbsent, statePurged}
     /\ ReadFound
     /\ ~(ReadDeleted /\ input.State = stateAbsent))
        => IF pc = "delete"
           THEN Committing = {}
           ELSE /\ Finished
                /\ \E d \in Deletes :
                     /\ Committing = {d}
                     /\ calls[d].name = input.Release
                     /\ calls[d].purge = (input.State = statePurged)
                     /\ calls[d].noHooks = input.NoHooks
                     /\ calls[d].timeout = input.Timeout
                     /\ IF calls[d].ok
                        THEN ret = [msg |-> <<"release ", input.Release, " deleted">>,
                                    changed |-> TRUE, err |-> NoError]
                        ELSE Failure(ret) /\ ret.err = RpcError(<<"delete failed">>)

C13_Witness ==
    /\ pc = "exited"
    /\ input.State = stateAbsent
    /\ input.NoHooks
    /\ releaseResponse.status = "DEPLOYED"
    /\ release.status = "DELETED"
    /\ \E d \in Deletes : calls[d].ok /\ ~calls[d].purge /\ calls[d].noHooks
    /\ output = <<[Msg |-> <<"release ", "web", " deleted">>, Changed |-> TRUE,
                   Failed |-> FALSE]>>

\* The calls of this invocation that provision the connection.
Provisions == {i \in DOMAIN calls : calls[i].op = "ForwardTillerPort"}

\* The invocation is over.
Terminated == pc \in {"exited", "panic"}

\* Every call other than ForwardTillerPort comes after a successful one.
ProvisionedFirst ==
    \A i \in DOMAIN calls \ Provisions :
        1 \in Provisions /\ calls[1].ok /\ i > 1

\* After a failed ForwardTillerPort the invocation has failed without
\* another call.
ProvisionFailureEnds ==
    (\E i \in Provisions : ~calls[i].ok)
        => /\ Len(calls) = 1
           /\ pc = "exited"
           /\ output = <<[Msg |-> <<"unable to forward tiller port">>,
                          Changed |-> FALSE, Failed |-> TRUE]>>

\* C14 as stated: an invocation of Run provisions the connection exactly
\* once, before any release read, trial or mutating call, and makes none of
\* these when provisioning fails.
C14_Original ==
    Terminated
        => /\ Cardinality(Provisions) = 1
           /\ ProvisionedFirst
           /\ ProvisionFailureEnds

\* C14 amended: an invocation of Run that has read and parsed its input
\* provisions the connection exactly once, before any release read, trial or
\* mutating call, and makes none of these when provisioning fails; an
\* invocation that fails on its arguments or its input never provisions and
\* makes no call.
C14_ProvisionedOnceFirst ==
    /\ Cardinality(Provisions) <= 1
    /\ (Terminated /\ input # ZeroInput) => Provisions = {1}
    /\ input = ZeroInput => calls = <<>>
    /\ ProvisionedFirst
    /\ ProvisionFailureEnds

C14_Witness ==
    /\ pc = "exited"
    /\ input.State = statePresent
    /\ Provisions = {1}
    /\ ~calls[1].ok
    /\ Len(calls) = 1
    /\ output[1].Failed

\* C15: after setDefaultInputs, applied once or twice, an empty goal is
\* "present", an empty namespace "default", a zero timeout 300, a missing
\* values mapping the empty mapping, an empty tiller namespace "kube-system";
\* every field that was given, and every other field, is as it was
\* unmarshalled, each whatever the other fields are.
C15_DefaultsIndependentIdempotent ==
    pc \in {"defaulted", "defaulted twice"}
        => /\ input.State =
                IF rawInput.State = "" THEN "present" ELSE rawInput.State
           /\ input.Namespace =
                IF rawInput.Namespace = "" THEN "default" ELSE rawInput.Namespace
           /\ input.Timeout =
                IF rawInput.Timeout = 0 THEN 300 ELSE rawInput.Timeout
           /\ input.Values =
                IF rawInput.Values = "nil" THEN "{}" ELSE rawInput.Values
           /\ input.TillerNamespace =
                IF rawInput.TillerNamespace = "" THEN "kube-system"
                ELSE rawInput.TillerNamespace
           /\ input.Chart = rawInput.Chart
           /\ input.Release = rawInput.Release
           /\ input.NoHooks = rawInput.NoHooks
           /\ input.NoCRDHook = rawInput.NoCRDHook
           /\ input.Wait = rawInput.Wait

C15_Witness ==
    /\ pc = "defaulted twice"
    /\ rawInput.State = "" /\ input.State = "present"
    /\ rawInput.Namespace = "prod" /\ input.Namespace = "prod"
    /\ rawInput.Timeout = 0 /\ input.Timeout = 300
    /\ rawInput.Values = "nil" /\ input.Values = "{}"
    /\ rawInput.TillerNamespace = "" /\ input.TillerNamespace = "kube-system"

\* The inputs the calls a and b share: release name, chart, values,
\* hook-disable flag, timeout and force.
SameInputs(a, b) ==
    /\ a.op = b.op
    /\ a.name = b.name
    /\ a.chart = b.chart
    /\ a.values = b.values
    /\ a.noHooks = b.noHooks
    /\ a.timeout = b.timeout
    /\ a.force = b.force

\* C16 as stated: the trial carries the inputs of the real update (release
\* name, chart, values, hook-disable flag, timeout, wait flag, force=false)
\* and differs from it only in dryRun=true.
C16_Original ==
    \A i \in Trials, j \in Updates :
        /\ SameInputs(calls[i], calls[j])
        /\ calls[i].wait = calls[j].wait
        /\ ~calls[i].force
        /\ calls[i].dryRun /\ ~calls[j].dryRun

\* C16 amended: the trial carries the release name, chart, values,
\* hook-disable flag and timeout of the input, with force=false, as the real
\* update after it does; it differs from the real update in dryRun=true and in
\* the wait flag, which the real update takes from the input and the trial
\* never carries.
C16_TrialInputs ==
    /\ \A i \in Trials :
         /\ calls[i].name = input.Release
         /\ calls[i].chart = input.Chart
         /\ calls[i].values = input.Values
         /\ calls[i].noHooks = input.NoHooks
         /\ calls[i].timeout = input.Timeout
         /\ ~calls[i].force
         /\ ~calls[i].wait
    /\ \A i \in Trials, j \in Updates :
         /\ SameInputs(calls[i], calls[j])
         /\ calls[j].wait = input.Wait
         /\ calls[i].dryRun /\ ~calls[j].dryRun

C16_Witness ==
    /\ pc = "returned"
    /\ input.Wait
    /\ input.NoHooks
    /\ \E i \in Trials, j \in Updates :
         /\ i < j
         /\ ~calls[i].wait /\ calls[j].wait
         /\ calls[i].timeout = 60 /\ calls[j].timeout = 60

\* C17: when the reconciliation has returned changed=false without an error,
\* tiller's record of the release (found, status, manifest, hooks) is the
\* record the invocation started with; the same holds as long as the
\* invocation has made a trial and no mutating call.
C17_UnchangedLeavesRecord ==
    /\ (Finished /\ ret.err = NoError /\ ~ret.changed) => release = before
    /\ (Trials # {} /\ Committing = {}) => release = before

C17_Witness ==
    /\ pc = "exited"
    /\ input.State = statePresent
    /\ input.NoHooks
    /\ \E i \in Trials : calls[i].ok
    /\ diffs = <<FALSE>>
    /\ ret = NoResult
    /\ release = before
    /\ release.status = "FAILED"
    /\ release.hooks = "none"

\* An error occurred in this invocation: in its arguments or input, in the
\* provisioning, in the release read, or returned by the reconciliation.
ErrorOccurred ==
    \/ input = ZeroInput
    \/ \E i \in DOMAIN calls : calls[i].op = "ForwardTillerPort" /\ ~calls[i].ok
    \/ ReadFailed
    \/ ret.err # NoError

\* C18: an invocation of Run that is over has written exactly one result
\* document; the document has failed=true exactly when an error occurred, and
\* changed=true only with failed=false and a reconciliation that reported a
\* change.
C18_OneResultDocument ==
    /\ Len(output) <= 1
    /\ Terminated
        => /\ Len(output) = 1
           /\ output[1].Failed <=> ErrorOccurred
           /\ output[1].Changed => (~output[1].Failed /\ ret.changed)

\* The previous invocation had a removal goal and succeeded, nobody touched
\* the release since, and this invocation has the same goal.
AfterRemovalSuccess ==
    /\ runs > 1
    /\ prev.state \in {stateAbsent, statePurged}
    /\ prev.outcome \in {"changed", "unchanged"}
    /\ ~drifted
    /\ input.State = prev.state

\* C19: after a successful reconciliation with goal absent (or purged), an
\* immediately following one with the same goal, on the release as the first
\* left it, makes no delete call and never reports changed=true.
C19_RemovalIdempotent ==
    AfterRemovalSuccess
        => /\ Deletes = {}
           /\ ~ret.changed
           /\ \A i \in DOMAIN output : ~output[i].Changed

C19_Witness ==
    /\ AfterRemovalSuccess
    /\ prev = [state |-> stateAbsent, outcome |-> "changed"]
    /\ pc = "exited"
    /\ ReadDeleted
    /\ Len(calls) = 2
    /\ output = <<[Msg |-> <<>>, Changed |-> FALSE, Failed |-> FALSE]>>

====
